---- MODULE Spec2Model ----
(***************************************************************************)
(* Model of codex_test (src/src/codex_test/__init__.py): count_mappings    *)
(* and convert_mappings_to_sql over PowerCenter XML and IDMC JSON          *)
(* workflow documents.                                                     *)
(*                                                                         *)
(* Representation.  A Python str is a sequence of one-character strings;   *)
(* generated SQL text is a sequence of atoms in which the literal pieces   *)
(* of the f-strings ("INSERT INTO ", ", ", "\n", ...) are single atoms and *)
(* interpolated names contribute their characters.  A parsed JSON value is *)
(* a tagged record (null, str, int, list, dict); a parsed XML element is a *)
(* record with its tag, the NAME and TYPE attributes and its children.     *)
(***************************************************************************)
EXTENDS Integers, Sequences, FiniteSets, TLC

\* ------------------------------------------------------------------------
\* Python str primitives
\* ------------------------------------------------------------------------

UpperChars == <<"A","B","C","D","E","F","G","H","I","J","K","L","M",
                "N","O","P","Q","R","S","T","U","V","W","X","Y","Z">>

LowerChars == <<"a","b","c","d","e","f","g","h","i","j","k","l","m",
                "n","o","p","q","r","s","t","u","v","w","x","y","z">>

LowerCh(c) ==
    IF \E i \in 1..Len(UpperChars) : UpperChars[i] = c
    THEN LowerChars[CHOOSE i \in 1..Len(UpperChars) : UpperChars[i] = c]
    ELSE c

\* str.lower()
Lower(s) == [i \in 1..Len(s) |-> LowerCh(s[i])]

\* str.isspace() of one character
IsSpace(c) == c \in {" ", "\t", "\n", "\r"}

SetMin(S) == CHOOSE x \in S : \A y \in S : x <= y

SetMax(S) == CHOOSE x \in S : \A y \in S : y <= x

\* str.strip()
Strip(s) ==
    LET keep == {i \in 1..Len(s) : ~IsSpace(s[i])}
    IN  IF keep = {} THEN << >> ELSE SubSeq(s, SetMin(keep), SetMax(keep))

\* str.startswith(p)
StartsWith(s, p) == Len(s) >= Len(p) /\ SubSeq(s, 1, Len(p)) = p

\* sub in text
Contains(text, sub) ==
    \E i \in 0..(Len(text) - Len(sub)) : SubSeq(text, i + 1, i + Len(sub)) = sub

RECURSIVE Concat(_)
\* "".join(parts)
Concat(parts) ==
    IF parts = << >> THEN << >> ELSE Head(parts) \o Concat(Tail(parts))

RECURSIVE Join(_, _)
\* sep.join(parts), sep one atom
Join(parts, sep) ==
    IF parts = << >> THEN << >>
    ELSE IF Len(parts) = 1 THEN parts[1]
    ELSE parts[1] \o <<sep>> \o Join(Tail(parts), sep)

Digits == <<"0","1","2","3","4","5","6","7","8","9">>

RECURSIVE NatStr(_)
NatStr(n) ==
    IF n < 10 THEN <<Digits[n + 1]>>
    ELSE NatStr(n \div 10) \o <<Digits[(n % 10) + 1]>>

\* ------------------------------------------------------------------------
\* Parsed JSON values (json.loads)
\* ------------------------------------------------------------------------

JNull == [t |-> "null", s |-> << >>, n |-> 0, kv |-> << >>]

JStr(s) == [t |-> "str", s |-> s, n |-> 0, kv |-> << >>]

JInt(n) == [t |-> "int", s |-> << >>, n |-> n, kv |-> << >>]

\* kv holds the items of a list
JList(items) == [t |-> "list", s |-> << >>, n |-> 0, kv |-> items]

\* kv holds the [k, v] entries of a dict, in insertion order
JDict(pairs) == [t |-> "dict", s |-> << >>, n |-> 0, kv |-> pairs]

KV(k, v) == [k |-> k, v |-> v]

\* k in d
HasKey(d, k) == \E i \in 1..Len(d.kv) : d.kv[i].k = k

\* d[k]
Item(d, k) == d.kv[CHOOSE i \in 1..Len(d.kv) : d.kv[i].k = k].v

\* d.get(k)
Get(d, k) == IF HasKey(d, k) THEN Item(d, k) ELSE JNull

\* bool(x)
Truthy(x) ==
    CASE x.t = "null" -> FALSE
      [] x.t = "str"  -> x.s # << >>
      [] x.t = "int"  -> x.n # 0
      [] OTHER        -> x.kv # << >>

\* a or b
Or(a, b) == IF Truthy(a) THEN a ELSE b

\* str(x) of a scalar (the modelled documents never pass a list or dict)
PyStr(x) ==
    CASE x.t = "str"  -> x.s
      [] x.t = "int"  -> IF x.n < 0 THEN <<"-">> \o NatStr(-x.n) ELSE NatStr(x.n)
      [] x.t = "null" -> <<"N","o","n","e">>

\* ------------------------------------------------------------------------
\* Parsed XML elements (xml.etree.ElementTree)
\* ------------------------------------------------------------------------

Attr(s) == [has |-> TRUE, s |-> s]

NoAttr == [has |-> FALSE, s |-> << >>]

Elem(tag, name, type, kids) ==
    [tag |-> tag, NAME |-> name, TYPE |-> type, kids |-> kids]

\* elem.findall(tag): direct children
FindAll(e, tag) == SelectSeq(e.kids, LAMBDA k : k.tag = tag)

RECURSIVE FindAllDesc(_, _)
RECURSIVE FindAllDescSeq(_, _)
\* elem.findall(".//tag"): every descendant, document order, not elem itself
FindAllDesc(e, tag) == FindAllDescSeq(e.kids, tag)

FindAllDescSeq(kids, tag) ==
    IF kids = << >> THEN << >>
    ELSE (IF Head(kids).tag = tag THEN <<Head(kids)>> ELSE << >>)
             \o FindAllDesc(Head(kids), tag)
             \o FindAllDescSeq(Tail(kids), tag)

\* ------------------------------------------------------------------------
\* Helpers of the converter
\* ------------------------------------------------------------------------

\* _text_identifier(name), name a str or None
TextIdentifier(name) == Strip(Or(name, JStr(<< >>)).s)

RECURSIVE DedupFrom(_, _)
\* the seen/unique loop: keep the first of the names equal ignoring case
DedupFrom(cols, seen) ==
    IF cols = << >> THEN << >>
    ELSE LET key == Lower(Head(cols))
         IN  IF key \in seen THEN DedupFrom(Tail(cols), seen)
             ELSE <<Head(cols)>> \o DedupFrom(Tail(cols), seen \cup {key})

DedupCI(cols) == DedupFrom(cols, {})

\* add_name(n): the names appended to cols
AddName(n) ==
    LET nm == IF n.t = "str" THEN Strip(n.s)
              ELSE Strip(PyStr(Or(n, JStr(<< >>))))
    IN  IF nm # << >> THEN <<nm>> ELSE << >>

NestedKeys == <<"fields", "columns", "ports", "children", "items">>

RECURSIVE Walk(_)
RECURSIVE WalkSeq(_)
RECURSIVE WalkKeys(_, _)
\* walk(node): the names appended to cols, in order
Walk(node) ==
    CASE node.t = "null" -> << >>
      [] node.t = "list" -> WalkSeq(node.kv)
      [] node.t = "dict" ->
            (IF HasKey(node, "name") \/ HasKey(node, "NAME")
             THEN AddName(Or(Get(node, "name"), Get(node, "NAME")))
             ELSE << >>)
            \o WalkKeys(node, NestedKeys)
            \o (IF HasKey(node, "schema") /\ Item(node, "schema").t = "dict"
                   /\ HasKey(Item(node, "schema"), "fields")
                THEN Walk(Item(Item(node, "schema"), "fields"))
                ELSE << >>)
      [] OTHER -> AddName(node)

WalkSeq(items) ==
    IF items = << >> THEN << >> ELSE Walk(Head(items)) \o WalkSeq(Tail(items))

WalkKeys(node, keys) ==
    IF keys = << >> THEN << >>
    ELSE (IF HasKey(node, Head(keys)) THEN Walk(Item(node, Head(keys))) ELSE << >>)
             \o WalkKeys(node, Tail(keys))

\* _normalize_field_list(fields)
NormalizeFieldList(fields) == DedupCI(Walk(fields))

\* _iter_idmc_mappings(data): raised is TRUE when the comprehension calls
\* .lower() on a truthy type that is not a str (AttributeError)
IsDict(x) == x.t = "dict"

IsMappingType(m) == Lower(Or(Get(m, "type"), JStr(<< >>)).s) = <<"m","a","p","p","i","n","g">>

TypeRaises(m) == Truthy(Get(m, "type")) /\ Get(m, "type").t # "str"

\* variant: the entries of "mappings" taken without the isinstance filter
IterIdmcMappingsUnfiltered(data) ==
    IF data.t = "dict" /\ Get(data, "mappings").t = "list"
    THEN [raised |-> FALSE, val |-> Item(data, "mappings").kv]
    ELSE [raised |-> FALSE, val |-> << >>]

IterIdmcMappings(data) ==
    IF data.t = "dict" /\ Get(data, "mappings").t = "list"
    THEN [raised |-> FALSE, val |-> SelectSeq(Item(data, "mappings").kv, IsDict)]
    ELSE IF data.t = "dict" /\ Get(data, "objects").t = "list"
    THEN LET objs == Item(data, "objects").kv
         IN  IF \E i \in 1..Len(objs) : IsDict(objs[i]) /\ TypeRaises(objs[i])
             THEN [raised |-> TRUE, val |-> << >>]
             ELSE [raised |-> FALSE,
                   val |-> SelectSeq(objs, LAMBDA m : IsDict(m) /\ IsMappingType(m))]
    ELSE [raised |-> FALSE, val |-> << >>]

\* variant: the endpoint is read under the keys of the nested walk
EndpointKeysNested == <<"fields", "columns", "ports", "children", "items">>

\* the keys of "for k in (...)" in _coerce_endpoints
EndpointKeys == <<"fields", "columns", "ports", "schema", "items">>

RECURSIVE EndpointFields(_, _)
\* the f_list.extend loop over the keys of one endpoint dict
EndpointFields(it, keys) ==
    IF keys = << >> THEN << >>
    ELSE (IF HasKey(it, Head(keys))
          THEN NormalizeFieldList(Item(it, Head(keys))) ELSE << >>)
             \o EndpointFields(it, Tail(keys))

\* one iteration of the loop of _coerce_endpoints: (name, uniq_fields)
CoerceOne(it, default_name) ==
    LET name ==
          IF it.t = "str"
          THEN (IF TextIdentifier(it) # << >> THEN TextIdentifier(it) ELSE default_name)
          ELSE IF it.t = "dict"
          THEN LET nm == TextIdentifier(JStr(PyStr(
                             Or(Or(Get(it, "name"), Get(it, "NAME")), JStr(default_name)))))
               IN  IF nm # << >> THEN nm ELSE default_name
          ELSE default_name
        f_list == IF it.t = "dict" THEN EndpointFields(it, EndpointKeys) ELSE << >>
    IN  [name |-> name, fields |-> DedupCI(f_list)]

\* _coerce_endpoints(obj, default_name)
CoerceEndpoints(obj, default_name) ==
    LET items == IF obj.t = "null" THEN << >>
                 ELSE IF obj.t = "list" THEN obj.kv ELSE <<obj>>
    IN  [i \in 1..Len(items) |-> CoerceOne(items[i], default_name)]

DefaultSource == <<"S","O","U","R","C","E">>

DefaultTarget == <<"T","A","R","G","E","T">>

UnknownMapping == <<"U","N","K","N","O","W","N","_","M","A","P","P","I","N","G">>

\* one iteration of the loop of _idmc_mapping_plans
PlanOf(m) ==
    LET stripped == Strip(PyStr(Or(Or(Get(m, "name"), Get(m, "NAME")), JStr(UnknownMapping))))
        sources_obj == IF HasKey(m, "sources") THEN Get(m, "sources") ELSE Get(m, "source")
        targets_obj == IF HasKey(m, "targets") THEN Get(m, "targets") ELSE Get(m, "target")
    IN  [name    |-> IF stripped # << >> THEN stripped ELSE UnknownMapping,
         sources |-> CoerceEndpoints(sources_obj, DefaultSource),
         targets |-> CoerceEndpoints(targets_obj, DefaultTarget)]

\* _idmc_mapping_plans(data)
IdmcMappingPlans(data) ==
    LET it == IterIdmcMappings(data)
    IN  [raised |-> it.raised,
         val |-> [i \in 1..Len(it.val) |-> PlanOf(it.val[i])]]

\* _union_fields(sources)
UnionFields(sources) ==
    DedupCI(Concat([i \in 1..Len(sources) |-> sources[i].fields]))

LowerSet(fields) == {Lower(fields[i]) : i \in 1..Len(fields)}

RECURSIVE CommonSet(_, _)
\* the narrowing loop "common &= {...}" over sources[1:]
CommonSet(common, rest) ==
    IF rest = << >> THEN common
    ELSE CommonSet(common \cap LowerSet(Head(rest).fields), Tail(rest))

\* _common_fields(sources)
CommonFields(sources) ==
    IF sources = << >> THEN << >>
    ELSE LET common == CommonSet(LowerSet(sources[1].fields), Tail(sources))
         IN  SelectSeq(sources[1].fields, LAMBDA c : Lower(c) \in common)

NoNote == [has |-> FALSE, text |-> << >>]

CrossJoinNote ==
    [has |-> TRUE, text |-> <<"No common columns across sources; used CROSS JOIN">>]

\* target_cols argument: None, or a list of column names
NoCols == [none |-> TRUE, cols |-> << >>]

Cols(cs) == [none |-> FALSE, cols |-> cs]

\* variant: the last source holding the column owns it
OwnerLast(sources, col) ==
    LET holders == {i \in 1..Len(sources) :
                      \E j \in 1..Len(sources[i].fields) :
                          Lower(sources[i].fields[j]) = Lower(col)}
    IN  IF holders = {} THEN 0 ELSE SetMax(holders)

\* owner(col): index of the first source holding col ignoring case, 0 for None
Owner(sources, col) ==
    LET holders == {i \in 1..Len(sources) :
                      \E j \in 1..Len(sources[i].fields) :
                          Lower(sources[i].fields[j]) = Lower(col)}
    IN  IF holders = {} THEN 0 ELSE SetMin(holders)

\* variant: a column no source holds is projected as NULL without an alias
SelectExprNoAlias(sources, commons, c) ==
    IF Lower(c) \in LowerSet(commons) THEN c
    ELSE IF Owner(sources, c) # 0
    THEN sources[Owner(sources, c)].name \o <<".">> \o c
    ELSE <<"NULL">>

\* one element of select_exprs (several sources)
SelectExpr(sources, commons, c) ==
    IF Lower(c) \in LowerSet(commons) THEN c
    ELSE IF Owner(sources, c) # 0
    THEN sources[Owner(sources, c)].name \o <<".">> \o c
    ELSE <<"NULL AS ">> \o c

\* variant: a column the source lacks is projected by its bare name
SingleSelectExprBare(fields, c) == c

\* one element of single_select_exprs (one source)
SingleSelectExpr(fields, c) ==
    IF Lower(c) \in LowerSet(fields) THEN c ELSE <<"NULL AS ">> \o c

\* variant: every further source is cross joined
JoinLineCross(src_name, commons) == <<"CROSS JOIN ">> \o src_name

\* variant: sources without common columns are joined with a bare JOIN
JoinLineInner(src_name, commons) ==
    IF commons # << >>
    THEN <<"JOIN ">> \o src_name \o <<" USING (">> \o Join(commons, ", ") \o <<")">>
    ELSE <<"JOIN ">> \o src_name

\* the element of from_parts for one of sources[1:]
JoinLine(src_name, commons) ==
    IF commons # << >>
    THEN <<"JOIN ">> \o src_name \o <<" USING (">> \o Join(commons, ", ") \o <<")">>
    ELSE <<"CROSS JOIN ">> \o src_name

\* _build_select_from_sources(sources, target_cols): (sel, from_sql, note)
BuildSelectFromSources(sources, target_cols) ==
    IF Len(sources) = 1
    THEN LET fields == sources[1].fields
             given  == SelectSeq(target_cols.cols, LAMBDA c : c # << >>)
             exprs  == [j \in 1..Len(given) |-> SingleSelectExpr(fields, given[j])]
             cols   == IF fields # << >> THEN fields ELSE << <<"*">> >>
             sel    == IF ~target_cols.none /\ target_cols.cols # << >>
                       THEN (IF exprs # << >> THEN Join(exprs, ", ") ELSE <<"*">>)
                       ELSE (IF cols # << <<"*">> >> THEN Join(cols, ", ") ELSE <<"*">>)
         IN  [sel |-> sel, from_sql |-> <<"FROM ">> \o sources[1].name, note |-> NoNote]
    ELSE LET commons == CommonFields(sources)
             rest    == Tail(sources)
             first   == <<"FROM ">> \o sources[1].name
             from_sql ==
                 Join(<<first>> \o [j \in 1..Len(rest) |-> JoinLine(rest[j].name, commons)],
                      "\n")
             wanted  == IF ~target_cols.none /\ target_cols.cols # << >>
                        THEN SelectSeq(target_cols.cols, LAMBDA c : c # << >>)
                        ELSE UnionFields(sources)
             exprs   == [j \in 1..Len(wanted) |-> SelectExpr(sources, commons, wanted[j])]
         IN  [sel      |-> IF exprs # << >> THEN Join(exprs, ", ") ELSE <<"*">>,
              from_sql |-> from_sql,
              note     |-> IF commons # << >> THEN NoNote ELSE CrossJoinNote]

\* the placeholder of the JSON path
JsonPlaceholder(m_name) ==
    <<"-- Mapping: ">> \o m_name \o <<" (unsupported or underspecified)", "\n">>
    \o <<"-- Requires at least one source and one target.", "\n">>
    \o <<"SELECT /* mapping ">> \o m_name \o <<" */ *;", "\n">>

\* variant: the comment of a statement does not name its target
TargetStatementUnnamed(m_name, sources, tgt) ==
    LET base      == BuildSelectFromSources(sources, NoCols)
        cols      == tgt.fields
        final_sel == IF cols # << >>
                     THEN BuildSelectFromSources(sources, Cols(cols)).sel
                     ELSE base.sel
        cols_csv  == IF cols # << >> THEN Join(cols, ", ")
                     ELSE IF final_sel # <<"*">> THEN Join(UnionFields(sources), ", ")
                     ELSE << >>
        head      == <<"-- Mapping: ">> \o m_name \o <<"\n">>
                     \o (IF base.note.has
                         THEN <<"-- ">> \o base.note.text \o <<"\n">> ELSE << >>)
    IN  IF cols_csv # << >>
        THEN head \o <<"INSERT INTO ">> \o tgt.name \o <<" (">> \o cols_csv \o <<")", "\n">>
                  \o <<"SELECT ">> \o final_sel \o <<"\n">>
                  \o base.from_sql \o <<";", "\n">>
        ELSE head \o <<"INSERT INTO ">> \o tgt.name \o <<"\n", "SELECT ">> \o final_sel
                  \o <<"\n">> \o base.from_sql \o <<";", "\n">>

\* variant: the note goes only with the select list taken from the sources
TargetStatementNoteOnBase(m_name, sources, tgt) ==
    LET base      == BuildSelectFromSources(sources, NoCols)
        cols      == tgt.fields
        final_sel == IF cols # << >>
                     THEN BuildSelectFromSources(sources, Cols(cols)).sel
                     ELSE base.sel
        cols_csv  == IF cols # << >> THEN Join(cols, ", ")
                     ELSE IF final_sel # <<"*">> THEN Join(UnionFields(sources), ", ")
                     ELSE << >>
        head      == <<"-- Mapping: ">> \o m_name \o <<" -> ">> \o tgt.name \o <<"\n">>
                     \o (IF base.note.has /\ cols = << >>
                         THEN <<"-- ">> \o base.note.text \o <<"\n">> ELSE << >>)
    IN  IF cols_csv # << >>
        THEN head \o <<"INSERT INTO ">> \o tgt.name \o <<" (">> \o cols_csv \o <<")", "\n">>
                  \o <<"SELECT ">> \o final_sel \o <<"\n">>
                  \o base.from_sql \o <<";", "\n">>
        ELSE head \o <<"INSERT INTO ">> \o tgt.name \o <<"\n", "SELECT ">> \o final_sel
                  \o <<"\n">> \o base.from_sql \o <<";", "\n">>

\* the statement of one target of a JSON mapping (body of the targets loop)
TargetStatement(m_name, sources, tgt) ==
    LET base      == BuildSelectFromSources(sources, NoCols)
        cols      == tgt.fields
        final_sel == IF cols # << >>
                     THEN BuildSelectFromSources(sources, Cols(cols)).sel
                     ELSE base.sel
        cols_csv  == IF cols # << >> THEN Join(cols, ", ")
                     ELSE IF final_sel # <<"*">> THEN Join(UnionFields(sources), ", ")
                     ELSE << >>
        head      == <<"-- Mapping: ">> \o m_name \o <<" -> ">> \o tgt.name \o <<"\n">>
                     \o (IF base.note.has
                         THEN <<"-- ">> \o base.note.text \o <<"\n">> ELSE << >>)
    IN  IF cols_csv # << >>
        THEN head \o <<"INSERT INTO ">> \o tgt.name \o <<" (">> \o cols_csv \o <<")", "\n">>
                  \o <<"SELECT ">> \o final_sel \o <<"\n">>
                  \o base.from_sql \o <<";", "\n">>
        ELSE head \o <<"INSERT INTO ">> \o tgt.name \o <<"\n", "SELECT ">> \o final_sel
                  \o <<"\n">> \o base.from_sql \o <<";", "\n">>

\* variant: only a missing source makes a mapping underspecified
PlanSqlSourcesOnly(plan) ==
    IF plan.sources = << >>
    THEN JsonPlaceholder(plan.name)
    ELSE Join([j \in 1..Len(plan.targets) |->
                  TargetStatement(plan.name, plan.sources, plan.targets[j])], "\n")

\* the value stored under plan["name"] by one iteration of the JSON loop
PlanSql(plan) ==
    IF plan.sources = << >> \/ plan.targets = << >>
    THEN JsonPlaceholder(plan.name)
    ELSE Join([j \in 1..Len(plan.targets) |->
                  TargetStatement(plan.name, plan.sources, plan.targets[j])], "\n")

\* elem.get(attr) or default
AttrOr(a, default) == IF a.has /\ a.s # << >> THEN a.s ELSE default

\* _fields_from_transformation(xform), then the "if f" filter of the caller
FieldsFromTransformation(xform) ==
    LET named == SelectSeq(FindAll(xform, "FIELD"), LAMBDA f : f.NAME.has /\ f.NAME.s # << >>)
    IN  [i \in 1..Len(named) |-> Strip(named[i].NAME.s)]

NonEmptyFields(xform) == SelectSeq(FieldsFromTransformation(xform), LAMBDA f : f # << >>)

\* _emit_insert_select(m_name, tgt_name, src_name, cols)
EmitInsertSelect(m_name, tgt_name, src_name, cols) ==
    IF cols # << >>
    THEN <<"-- Mapping: ">> \o m_name \o <<"\n">>
         \o <<"INSERT INTO ">> \o tgt_name \o <<" (">> \o Join(cols, ", ") \o <<")", "\n">>
         \o <<"SELECT ">> \o Join(cols, ", ") \o <<" FROM ">> \o src_name \o <<";", "\n">>
    ELSE <<"-- Mapping: ">> \o m_name \o <<" (no fields found)", "\n">>
         \o <<"-- Unable to infer columns; emitting broad SELECT.", "\n">>
         \o <<"INSERT INTO ">> \o tgt_name \o <<"\n">>
         \o <<"SELECT * FROM ">> \o src_name \o <<";", "\n">>

\* the placeholder of the XML path
XmlPlaceholder(m_name) ==
    <<"-- Mapping: ">> \o m_name \o <<" (unsupported or underspecified)", "\n">>
    \o <<"-- No clear single source/target; manual conversion required.", "\n">>
    \o <<"SELECT /* mapping ">> \o m_name \o <<" */ *;", "\n">>

TypeStartsWith(x, prefix) == StartsWith(Lower(AttrOr(x.TYPE, << >>)), prefix)

\* variant: the first of several source transformations is the source
XmlSourcesFirst(m) ==
    LET all == SelectSeq(FindAll(m, "TRANSFORMATION"),
                         LAMBDA x : TypeStartsWith(x, <<"s","o","u","r","c","e">>))
    IN  IF all = << >> THEN << >> ELSE <<all[1]>>

\* srcs = [t for t in m.findall("TRANSFORMATION") if TYPE starts with "source"]
XmlSources(m) ==
    SelectSeq(FindAll(m, "TRANSFORMATION"),
              LAMBDA x : TypeStartsWith(x, <<"s","o","u","r","c","e">>))

XmlTargets(m) ==
    SelectSeq(FindAll(m, "TRANSFORMATION"),
              LAMBDA x : TypeStartsWith(x, <<"t","a","r","g","e","t">>))

XmlName(m) == AttrOr(m.NAME, UnknownMapping)

\* variant: the target fields are the columns whenever the target has fields
XmlColsTargetFirst(tgt_fields, src_fields) ==
    IF tgt_fields # << >> THEN tgt_fields ELSE src_fields

\* the column choice of the XML path
XmlCols(tgt_fields, src_fields) ==
    IF tgt_fields # << >> /\ src_fields # << >>
    THEN SelectSeq(tgt_fields, LAMBDA c : Lower(c) \in LowerSet(src_fields))
    ELSE IF tgt_fields # << >> THEN tgt_fields ELSE src_fields

\* the value stored under m_name by one iteration of the XML loop
XmlMappingSql(m) ==
    LET srcs == XmlSources(m)
        tgts == XmlTargets(m)
    IN  IF Len(srcs) = 1 /\ Len(tgts) = 1
        THEN LET src_name == IF Strip(AttrOr(srcs[1].NAME, << >>)) # << >>
                             THEN Strip(AttrOr(srcs[1].NAME, << >>)) ELSE DefaultSource
                 tgt_name == IF Strip(AttrOr(tgts[1].NAME, << >>)) # << >>
                             THEN Strip(AttrOr(tgts[1].NAME, << >>)) ELSE DefaultTarget
             IN  EmitInsertSelect(XmlName(m), tgt_name, src_name,
                                  XmlCols(NonEmptyFields(tgts[1]), NonEmptyFields(srcs[1])))
        ELSE XmlPlaceholder(XmlName(m))

\* ------------------------------------------------------------------------
\* The workflow file
\* ------------------------------------------------------------------------

\* first character of the serialised JSON value
JsonFirst(v) ==
    CASE v.t = "dict" -> <<"{">>
      [] v.t = "list" -> <<"[">>
      [] v.t = "str"  -> <<"\"">>
      [] v.t = "int"  -> <<Head(PyStr(v))>>
      [] v.t = "null" -> <<"n">>

\* the beginning of the text of the file
TextHead(f) ==
    f.lead \o (CASE f.kind = "json" -> JsonFirst(f.json)
                 [] f.kind = "xml"  -> <<"<">>
                 [] OTHER           -> f.junk)

\* json.loads(p.read_text()) returns
JsonLoads(f) == f.readable /\ f.kind = "json"

\* ET.parse(p) returns
XmlParses(f) == f.readable /\ f.kind = "xml"

\* variant: the suffix is compared as written
LooksLikeJsonExact(f) ==
    IF f.ext = <<".","j","s","o","n">> THEN TRUE
    ELSE IF ~f.readable THEN FALSE
    ELSE LET text == TextHead(f)
             solid == {i \in 1..Len(text) : ~IsSpace(text[i])}
         IN  IF solid = {} THEN FALSE ELSE text[SetMin(solid)] \in {"[", "{"}

\* _looks_like_json(path)
LooksLikeJson(f) ==
    IF Lower(f.ext) = <<".","j","s","o","n">> THEN TRUE
    ELSE IF ~f.readable THEN FALSE
    ELSE LET text == TextHead(f)
             solid == {i \in 1..Len(text) : ~IsSpace(text[i])}
         IN  IF solid = {} THEN FALSE ELSE text[SetMin(solid)] \in {"[", "{"}

\* variant: the statements of the mappings before are carried into the value
DictSetCarrying(d, k, v) ==
    LET w == IF d = << >> THEN v ELSE d[Len(d)].v \o <<"\n">> \o v
    IN  IF \E j \in 1..Len(d) : d[j].k = k
        THEN [j \in 1..Len(d) |-> IF d[j].k = k THEN KV(k, w) ELSE d[j]]
        ELSE Append(d, KV(k, w))

\* dict assignment d[k] = v on an insertion-ordered dict
DictSet(d, k, v) ==
    IF \E j \in 1..Len(d) : d[j].k = k
    THEN [j \in 1..Len(d) |-> IF d[j].k = k THEN KV(k, v) ELSE d[j]]
    ELSE Append(d, KV(k, v))

DictHas(d, k) == \E j \in 1..Len(d) : d[j].k = k

DictGet(d, k) == d[CHOOSE j \in 1..Len(d) : d[j].k = k].v

\* ------------------------------------------------------------------------
\* The documents explored
\* ------------------------------------------------------------------------

MaxMappings == 2

MaxSources == 2

MaxTargets == 2

MaxFields == 2

MaxXforms == 2

SeqsUpTo(S, n) == UNION {[1..k -> S] : k \in 0..n}

\* sequences without a repeated element
DistinctSeqsUpTo(S, n) ==
    {q \in SeqsUpTo(S, n) : \A j, k \in 1..Len(q) : j # k => q[j] # q[k]}

M1 == <<"m","1">>

M2 == <<"m","2">>

S1 == <<"S","1">>

T1 == <<"T","1">>

FirstSourceFieldNames == {<<"a">>, <<"A">>, <<"b">>}

OtherSourceFieldNames == {<<"a">>, <<"b">>}

TargetFieldNames == {<<"A">>, <<"b">>}

JStrList(names) == JList([j \in 1..Len(names) |-> JStr(names[j])])

EndpointDict(name, names) ==
    JDict(<<KV("name", JStr(name)), KV("fields", JStrList(names))>>)

MappingsDoc(entries) == JDict(<<KV("mappings", JList(entries))>>)

Endpoints(letter, fls) ==
    [j \in 1..Len(fls) |-> EndpointDict(<<letter, Digits[j + 1]>>, fls[j])]

\* up to MaxSources sources; the first may spell a field in either case
RichSources ==
    {Endpoints("S", fls) :
        fls \in {q \in SeqsUpTo(DistinctSeqsUpTo(FirstSourceFieldNames, MaxFields),
                                 MaxSources) :
                    \A j \in 2..Len(q) :
                        q[j] \in DistinctSeqsUpTo(OtherSourceFieldNames, MaxFields)}}

RichTargets ==
    {Endpoints("T", fls) :
        fls \in SeqsUpTo(DistinctSeqsUpTo(TargetFieldNames, MaxFields), MaxTargets)}

\* the source lists met with several targets
FixedSources ==
    {Endpoints("S", fls) :
        fls \in {<< << <<"a">>, <<"b">> >> >>,
                 << << <<"a">>, <<"b">> >>, << <<"A">>, <<"c">> >> >>,
                 << << <<"a">> >>, << <<"b">> >> >>,
                 << << >>, << >> >>,
                 << << <<"a">> >>, << <<"b">>, <<"c">> >>, << <<"c">>, <<"b">> >> >>,
                 << << <<"a">>, <<"b">> >>, << <<"c">>, <<"a">> >>,
                    << <<"A">>, <<"c">> >> >>}}

RichMapping(ss, ts) ==
    MappingsDoc(<<JDict(<<KV("name", JStr(M1)),
                          KV("sources", JList(ss)),
                          KV("targets", JList(ts))>>)>>)

\* one mapping, its sources and targets given in the plural keys
RichJsonDocs ==
    {RichMapping(ss, ts) : ss \in RichSources, ts \in {q \in RichTargets : Len(q) <= 1}}
    \cup {RichMapping(ss, ts) : ss \in FixedSources, ts \in RichTargets}

\* several entries with the singular keys, names repeated, blank or absent
Optional(k, vals) == {<< >>} \cup {<<KV(k, v)>> : v \in vals}

EntryNames == {JStr(M1), JStr(M2), JStr(<<" ">>)}

EntrySources == {EndpointDict(S1, << <<"a">> >>)}

EntryTargets == {EndpointDict(T1, << <<"a">>, <<"b">> >>)}

\* entries with a source under every name, entries without one under two
MappingEntries ==
    {JDict(n \o src \o tgt) :
        n \in Optional("name", EntryNames),
        src \in {<<KV("source", e)>> : e \in EntrySources},
        tgt \in Optional("target", EntryTargets)}
    \cup {JDict(n \o tgt) :
             n \in Optional("name", {JStr(M1)}),
             tgt \in Optional("target", EntryTargets)}

NonDictEntries == {JStr(M1), JInt(5)}

MultiJsonDocs ==
    {MappingsDoc(es) : es \in SeqsUpTo(MappingEntries \cup NonDictEntries, MaxMappings)}

\* the alternate "objects" layout, with every kind of "type" value
TypeValues ==
    {JStr(<<"m","a","p","p","i","n","g">>), JStr(<<"M","a","p","p","i","n","g">>),
     JStr(<<"t","a","s","k">>), JNull, JInt(0), JInt(5)}

ObjectEntries ==
    {JDict(ty \o <<KV("name", n), KV("source", EndpointDict(S1, << <<"a">> >>)),
                   KV("target", EndpointDict(T1, << <<"a">> >>))>>) :
        ty \in Optional("type", TypeValues), n \in {JStr(M1)}}

ObjectsDocs ==
    {JDict(<<KV("objects", JList(es))>>) :
        es \in SeqsUpTo(ObjectEntries \cup {JStr(M1)}, MaxMappings)}

SimpleEntry ==
    JDict(<<KV("name", JStr(M1)), KV("source", EndpointDict(S1, << <<"a">> >>)),
            KV("target", EndpointDict(T1, << <<"a">> >>))>>)

\* other top-level shapes
OddJsonDocs ==
    {JList(<<SimpleEntry>>), JDict(<< >>), JInt(3), JNull, JStr(M1),
     JDict(<<KV("mappings", JStr(M1)), KV("objects", JList(<<SimpleEntry>>))>>),
     JDict(<<KV("mappings", JList(<<SimpleEntry>>)),
             KV("objects", JList(<<JDict(<<KV("type", JInt(5))>>)>>))>>)}

\* values of unexpected types inside one mapping
OddLeaves == {JInt(7), JInt(0), JNull, JStr(<< >>), JStr(<<" ","a"," ">>), JStr(<<"A">>)}

OddMapping(n, sn, fl, tg) ==
    MappingsDoc(<<JDict(<<KV("name", n),
                          KV("source", JDict(<<KV("name", sn), KV("fields", JList(fl))>>)),
                          KV("target", tg)>>)>>)

OddJsonDocsInner ==
    {OddMapping(JInt(7), JInt(12), fl, EndpointDict(T1, << <<"a">>, <<"7">> >>)) :
        fl \in SeqsUpTo(OddLeaves, MaxFields)}
    \cup {OddMapping(n, sn, <<JStr(<<"a">>)>>, tg) :
             n \in {JInt(7), JNull},
             sn \in {JInt(0), JInt(12), JStr(<<" ">>)},
             tg \in {JInt(4), JStr(T1), EndpointDict(T1, << <<"a">>, <<"7">> >>)}}

\* endpoint shapes: one source carrying any of the field-bearing keys, each
\* with its own names, in the reverse of the order the converter reads them
ShapeSchemas ==
    {JDict(<<KV("fields", JStrList(<< <<"s">> >>))>>),
     JDict(<<KV("fields", JStrList(<< <<"s">> >>)), KV("name", JStr(<<"n">>))>>),
     JDict(<<KV("columns", JStrList(<< <<"u">> >>))>>)}

ShapeFields == JList(<<JStr(<<" ","f"," ">>), JInt(0), JNull, JStr(<< >>)>>)

ShapeColumns == JList(<<JDict(<<KV("name", JStr(<<"c">>))>>)>>)

ShapePorts ==
    JList(<<JStr(<<"p">>),
            JDict(<<KV("name", JStr(<<"q">>)), KV("children", JStrList(<< <<"k">> >>))>>)>>)

ShapeSources ==
    {JDict(sc \o it \o ch \o po \o co \o fi \o <<KV("name", JStr(S1))>>) :
        sc \in Optional("schema", ShapeSchemas),
        it \in Optional("items", {JStrList(<< <<"i">> >>)}),
        ch \in Optional("children", {JStrList(<< <<"h">> >>)}),
        po \in Optional("ports", {ShapePorts}),
        co \in Optional("columns", {ShapeColumns}),
        fi \in Optional("fields", {ShapeFields})}

ShapeDocs ==
    {MappingsDoc(<<JDict(<<KV("name", JStr(M1)), KV("sources", src),
                           KV("targets", EndpointDict(T1, << >>))>>)>>) :
        src \in ShapeSources}

\* PowerCenter documents
Field(name) == Elem("FIELD", Attr(name), NoAttr, << >>)

Fields(names) == [j \in 1..Len(names) |-> Field(names[j])]

SourceType == Attr(<<"S","o","u","r","c","e"," ","D","e","f">>)

TargetType == Attr(<<"T","A","R","G","E","T">>)

Xforms ==
    {Elem("TRANSFORMATION", Attr(S1), SourceType, Fields(fl)) :
        fl \in DistinctSeqsUpTo(FirstSourceFieldNames, MaxFields)}
    \cup {Elem("TRANSFORMATION", Attr(T1), TargetType, Fields(fl)) :
             fl \in DistinctSeqsUpTo(TargetFieldNames, MaxFields)}
    \cup {Elem("TRANSFORMATION", Attr(<<"F">>), Attr(<<"F","i","l","t","e","r">>), << >>)}

Repository(mappings) ==
    Elem("REPOSITORY", NoAttr, NoAttr, <<Elem("FOLDER", NoAttr, NoAttr, mappings)>>)

RichXmlDocs ==
    {Repository(<<Elem("MAPPING", Attr(M1), NoAttr, xs)>>) : xs \in SeqsUpTo(Xforms, MaxXforms)}

SimpleXforms ==
    <<Elem("TRANSFORMATION", Attr(<<" ","S","1">>), Attr(<<"s","o","u","r","c","e">>),
           <<Field(<<"a">>), Field(<<" ","b">>), Elem("FIELD", NoAttr, NoAttr, << >>)>>),
      Elem("TRANSFORMATION", NoAttr, Attr(<<"T","a","r","g","e","t">>),
           <<Field(<<"b">>), Field(<<"c">>), Field(<<"A">>), Field(<<" ">>)>>),
      Elem("TRANSFORMATION", Attr(<<"X">>), NoAttr, << >>)>>

\* two source-typed transformations beside one target
TwoSourceXforms ==
    <<Elem("TRANSFORMATION", Attr(<<"S","1">>), Attr(<<"S","o","u","r","c","e">>),
           <<Field(<<"a">>)>>),
      Elem("TRANSFORMATION", Attr(<<"S","2">>),
           Attr(<<"s","o","u","r","c","e"," ","Q">>), <<Field(<<"b">>)>>),
      Elem("TRANSFORMATION", Attr(<<"T","1">>), Attr(<<"t","a","r","g","e","t">>),
           <<Field(<<"a">>)>>)>>

XmlMappingElems ==
    {Elem("MAPPING", n, NoAttr, xs) :
        n \in {Attr(M1), Attr(M2), Attr(<< >>), Attr(<<" ">>), NoAttr},
        xs \in {<< >>, SimpleXforms}}
    \cup {Elem("MAPPING", Attr(<<" ","M","1">>), NoAttr, TwoSourceXforms)}

MultiXmlDocs ==
    {Repository(ms) : ms \in SeqsUpTo(XmlMappingElems, MaxMappings)}
    \cup {Elem("MAPPING", Attr(M1), NoAttr, SimpleXforms \o ms) :
             ms \in SeqsUpTo(XmlMappingElems, MaxMappings - 1)}

NoElem == Elem("NONE", NoAttr, NoAttr, << >>)

JsonFile(ext, readable, lead, data) ==
    [ext |-> ext, readable |-> readable, lead |-> lead, kind |-> "json",
     json |-> data, xml |-> NoElem, junk |-> << >>]

XmlFile(ext, readable, lead, root) ==
    [ext |-> ext, readable |-> readable, lead |-> lead, kind |-> "xml",
     json |-> JNull, xml |-> root, junk |-> << >>]

JunkFile(ext, readable, lead, junk) ==
    [ext |-> ext, readable |-> readable, lead |-> lead, kind |-> "junk",
     json |-> JNull, xml |-> NoElem, junk |-> junk]

DotJson == <<".","j","s","o","n">>

DotXml == <<".","x","m","l">>

Extensions == {DotJson, <<".","J","S","O","N">>, DotXml, << >>}

Leads == {<< >>, <<" ","\n">>}

Junks == {<< >>, <<"{","m">>, <<"[">>, <<"<","M">>, <<"m">>}

\* the same few contents under every extension, readable or not
OddFiles ==
    {JsonFile(e, r, l, d) :
        e \in Extensions, r \in BOOLEAN, l \in Leads,
        d \in {MappingsDoc(<<SimpleEntry>>), JList(<<SimpleEntry>>), JInt(3)}}
    \cup {XmlFile(e, r, l, Repository(<<Elem("MAPPING", Attr(M1), NoAttr, SimpleXforms)>>)) :
             e \in Extensions, r \in BOOLEAN, l \in Leads}
    \cup {JunkFile(e, r, l, j) :
             e \in Extensions, r \in BOOLEAN, l \in Leads, j \in Junks}

Files ==
    {JsonFile(DotJson, TRUE, << >>, d) :
        d \in RichJsonDocs \cup MultiJsonDocs \cup ObjectsDocs
                \cup OddJsonDocs \cup OddJsonDocsInner \cup ShapeDocs}
    \cup {XmlFile(DotXml, TRUE, << >>, x) : x \in RichXmlDocs \cup MultiXmlDocs}
    \cup OddFiles

\* ------------------------------------------------------------------------
\* The program
\* ------------------------------------------------------------------------

VARIABLES
    file,            \* the workflow document at workflow_path
    count,           \* outcome of count_mappings: not called, returned n, raised
    pc,              \* position of convert_mappings_to_sql
    plans,           \* JSON path: _idmc_mapping_plans(data)
    elems,           \* XML path: root.findall(".//MAPPING")
    i,               \* number of loop iterations completed
    sql_by_mapping,  \* the dict being built, in insertion order
    conv,            \* outcome of convert_mappings_to_sql
    branch           \* branch of "if _looks_like_json(p)" each operation took

vars == <<file, count, pc, plans, elems, i, sql_by_mapping, conv, branch>>

Returned(n) == [st |-> "returned", n |-> n]

Raised == [st |-> "raised", n |-> 0]

NotCalled == [st |-> "none", n |-> 0]

Init ==
    /\ file \in Files
    /\ count = NotCalled
    /\ pc = "idle"
    /\ plans = << >>
    /\ elems = << >>
    /\ i = 0
    /\ sql_by_mapping = << >>
    /\ conv = "none"
    /\ branch = [count |-> "none", convert |-> "none"]

\* the branch taken on "if _looks_like_json(p)"
BranchOf(f) == IF LooksLikeJson(f) THEN "json" ELSE "xml"

\* variant: malformed JSON is reported like malformed XML
CountOutcomeStrict(f) ==
    IF LooksLikeJson(f)
    THEN IF ~JsonLoads(f) THEN Raised
         ELSE IF IterIdmcMappings(f.json).raised THEN Raised
         ELSE Returned(Len(IterIdmcMappings(f.json).val))
    ELSE IF ~XmlParses(f) THEN Raised
         ELSE Returned(Len(FindAllDesc(f.xml, "MAPPING")))

\* count_mappings(workflow_path)
CountOutcome(f) ==
    IF LooksLikeJson(f)
    THEN IF ~JsonLoads(f) THEN Returned(0)
         ELSE IF IterIdmcMappings(f.json).raised THEN Raised
         ELSE Returned(Len(IterIdmcMappings(f.json).val))
    ELSE IF ~XmlParses(f) THEN Raised
         ELSE Returned(Len(FindAllDesc(f.xml, "MAPPING")))

CountMappings ==
    /\ pc \in {"idle", "done"}
    /\ count.st = "none"
    /\ count' = CountOutcome(file)
    /\ branch' = [branch EXCEPT !.count = BranchOf(file)]
    /\ UNCHANGED <<file, pc, plans, elems, i, sql_by_mapping, conv>>

\* convert_mappings_to_sql: document detection and parsing, up to the loop
ConvertBegin ==
    /\ pc = "idle"
    /\ i' = 0
    /\ sql_by_mapping' = << >>
    /\ IF LooksLikeJson(file)
       THEN IF ~JsonLoads(file)
            THEN pc' = "done" /\ conv' = "returned" /\ UNCHANGED <<plans, elems>>
            ELSE IF IdmcMappingPlans(file.json).raised
            THEN pc' = "done" /\ conv' = "raised" /\ UNCHANGED <<plans, elems>>
            ELSE /\ pc' = "json"
                 /\ plans' = IdmcMappingPlans(file.json).val
                 /\ UNCHANGED <<elems, conv>>
       ELSE IF ~XmlParses(file)
            THEN pc' = "done" /\ conv' = "raised" /\ UNCHANGED <<plans, elems>>
            ELSE /\ pc' = "xml"
                 /\ elems' = FindAllDesc(file.xml, "MAPPING")
                 /\ UNCHANGED <<plans, conv>>
    /\ branch' = [branch EXCEPT !.convert = BranchOf(file)]
    /\ UNCHANGED <<file, count>>

\* one iteration of "for plan in _idmc_mapping_plans(data)"
ConvertJsonPlan ==
    /\ pc = "json"
    /\ i < Len(plans)
    /\ i' = i + 1
    /\ sql_by_mapping' = DictSet(sql_by_mapping, plans[i + 1].name, PlanSql(plans[i + 1]))
    /\ UNCHANGED <<file, count, pc, plans, elems, conv, branch>>

\* one iteration of "for m in root.findall('.//MAPPING')"
ConvertXmlMapping ==
    /\ pc = "xml"
    /\ i < Len(elems)
    /\ i' = i + 1
    /\ sql_by_mapping' = DictSet(sql_by_mapping, XmlName(elems[i + 1]),
                                 XmlMappingSql(elems[i + 1]))
    /\ UNCHANGED <<file, count, pc, plans, elems, conv, branch>>

\* "return sql_by_mapping" after the loop
ConvertReturn ==
    /\ \/ pc = "json" /\ i = Len(plans)
       \/ pc = "xml" /\ i = Len(elems)
    /\ pc' = "done"
    /\ conv' = "returned"
    /\ UNCHANGED <<file, count, plans, elems, i, sql_by_mapping, branch>>

Next ==
    \/ CountMappings
    \/ ConvertBegin
    \/ ConvertJsonPlan
    \/ ConvertXmlMapping
    \/ ConvertReturn

Spec == Init /\ [][Next]_vars

\* ------------------------------------------------------------------------
\* Reading the generated text
\* ------------------------------------------------------------------------

RECURSIVE SplitOn(_, _)
\* text.split(sep), sep one atom
SplitOn(text, sep) ==
    LET at == {p \in 1..Len(text) : text[p] = sep}
    IN  IF at = {} THEN <<text>>
        ELSE <<SubSeq(text, 1, SetMin(at) - 1)>>
                 \o SplitOn(SubSeq(text, SetMin(at) + 1, Len(text)), sep)

Lines(text) == SplitOn(text, "\n")

RECURSIVE GroupLines(_, _)
\* the runs of non-empty lines between blank lines
GroupLines(lines, cur) ==
    IF lines = << >> THEN (IF cur = << >> THEN << >> ELSE <<cur>>)
    ELSE IF Head(lines) = << >>
    THEN (IF cur = << >> THEN << >> ELSE <<cur>>) \o GroupLines(Tail(lines), << >>)
    ELSE GroupLines(Tail(lines), Append(cur, Head(lines)))

\* the statements of a generated text, each a sequence of lines
Statements(text) == GroupLines(Lines(text), << >>)

LinesFrom(stmt, first) == SelectSeq(stmt, LAMBDA l : l # << >> /\ Head(l) = first)

\* the expressions of the SELECT line of a statement of the JSON path
SelectItems(stmt) == SplitOn(Tail(LinesFrom(stmt, "SELECT ")[1]), ", ")

\* the mapping whose SQL the last loop iteration stored
JsonStep == i >= 1 /\ plans # << >>

XmlStep == i >= 1 /\ elems # << >>

LastPlan == plans[i]

LastElem == elems[i]

LastJsonSql == DictGet(sql_by_mapping, LastPlan.name)

LastXmlSql == DictGet(sql_by_mapping, XmlName(LastElem))

\* the single source and target of an XML mapping, when there is one of each
XmlSingle == XmlStep /\ Len(XmlSources(LastElem)) = 1 /\ Len(XmlTargets(LastElem)) = 1

XmlSrcName == Strip(AttrOr(XmlSources(LastElem)[1].NAME, DefaultSource))

XmlTgtName == Strip(AttrOr(XmlTargets(LastElem)[1].NAME, DefaultTarget))

XmlSrcFields == NonEmptyFields(XmlSources(LastElem)[1])

XmlTgtFields == NonEmptyFields(XmlTargets(LastElem)[1])

HasLower(fields, c) == \E j \in 1..Len(fields) : Lower(fields[j]) = Lower(c)

InsertWithColumns(tgt, cols) ==
    <<"INSERT INTO ">> \o tgt \o <<" (">> \o Join(cols, ", ") \o <<")">>

SelectFromOneLine(cols, src) ==
    <<"SELECT ">> \o Join(cols, ", ") \o <<" FROM ">> \o src \o <<";">>

\* ------------------------------------------------------------------------
\* C1
\* ------------------------------------------------------------------------

C1JsonCase ==
    /\ JsonStep
    /\ Len(LastPlan.sources) = 1
    /\ Len(LastPlan.targets) = 1
    /\ LastPlan.sources[1].fields = LastPlan.targets[1].fields
    /\ LastPlan.targets[1].fields # << >>

C1XmlCase == XmlSingle /\ XmlSrcFields = XmlTgtFields /\ XmlTgtFields # << >>

\* C1 (as claimed): a mapping, XML or JSON, with one source and one target
\* declaring the same fields F yields SQL containing "INSERT INTO <target> (F)"
\* and, on one line, "SELECT F FROM <source>;".
C1_SameFieldsInsertSelect ==
    /\ C1JsonCase =>
          /\ Contains(LastJsonSql, InsertWithColumns(LastPlan.targets[1].name,
                                                      LastPlan.targets[1].fields))
          /\ Contains(LastJsonSql, SelectFromOneLine(LastPlan.targets[1].fields,
                                                      LastPlan.sources[1].name))
    /\ C1XmlCase =>
          /\ Contains(LastXmlSql, InsertWithColumns(XmlTgtName, XmlTgtFields))
          /\ Contains(LastXmlSql, SelectFromOneLine(XmlTgtFields, XmlSrcName))

\* ------------------------------------------------------------------------
\* C2
\* ------------------------------------------------------------------------

MappingWord == <<"m","a","p","p","i","n","g">>

RECURSIVE CountBelow(_, _)
RECURSIVE CountIn(_, _)
\* number of elements named tag strictly below e
CountBelow(e, tag) == CountIn(e.kids, tag)

CountIn(kids, tag) ==
    IF kids = << >> THEN 0
    ELSE (IF Head(kids).tag = tag THEN 1 ELSE 0)
             + CountBelow(Head(kids), tag) + CountIn(Tail(kids), tag)

UsesMappings(data) == data.t = "dict" /\ Get(data, "mappings").t = "list"

UsesObjects(data) ==
    data.t = "dict" /\ ~UsesMappings(data) /\ Get(data, "objects").t = "list"

HasMappingType(m) ==
    m.t = "dict" /\ Get(m, "type").t = "str" /\ Lower(Get(m, "type").s) = MappingWord

\* the document is one for which C2 promises a count
C2Covered(f) == f.readable /\ (LooksLikeJson(f) \/ f.kind = "xml")

\* N as the claim defines it
C2ClaimedCount(f) ==
    IF LooksLikeJson(f)
    THEN IF f.kind # "json" THEN 0
         ELSE IF UsesMappings(f.json) THEN Len(Get(f.json, "mappings").kv)
         ELSE IF UsesObjects(f.json)
         THEN Cardinality({j \in 1..Len(Get(f.json, "objects").kv) :
                              HasMappingType(Get(f.json, "objects").kv[j])})
         ELSE 0
    ELSE CountBelow(f.xml, "MAPPING") + (IF f.xml.tag = "MAPPING" THEN 1 ELSE 0)

C2BadType(f) ==
    /\ f.kind = "json"
    /\ UsesObjects(f.json)
    /\ \E j \in 1..Len(Get(f.json, "objects").kv) :
          LET m == Get(f.json, "objects").kv[j]
          IN  m.t = "dict" /\ Get(m, "type").t \notin {"null", "str"} /\ Truthy(Get(m, "type"))

\* N counting only the entries that are objects, and only below the root
C2ObjectCount(f) ==
    IF LooksLikeJson(f)
    THEN IF f.kind # "json" THEN 0
         ELSE IF UsesMappings(f.json)
         THEN Cardinality({j \in 1..Len(Get(f.json, "mappings").kv) :
                              Get(f.json, "mappings").kv[j].t = "dict"})
         ELSE IF UsesObjects(f.json)
         THEN Cardinality({j \in 1..Len(Get(f.json, "objects").kv) :
                              HasMappingType(Get(f.json, "objects").kv[j])})
         ELSE 0
    ELSE CountBelow(f.xml, "MAPPING")

HasValue(d, v) == \E j \in 1..Len(d) : d[j].v = v

\* C3 (as claimed): the returned map has as many entries as count_mappings
\* reports for the document, and the SQL of every mapping is in it, whatever
\* the mapping names.
C3_ResultForEveryMapping ==
    (pc = "done" /\ conv = "returned" /\ count.st = "returned" /\ file.readable
        /\ file.kind \in {"json", "xml"}) =>
        /\ Len(sql_by_mapping) = count.n
        /\ \A k \in 1..Len(plans) : HasValue(sql_by_mapping, PlanSql(plans[k]))
        /\ \A k \in 1..Len(elems) : HasValue(sql_by_mapping, XmlMappingSql(elems[k]))

\* ------------------------------------------------------------------------
\* C4
\* ------------------------------------------------------------------------

InSeq(q, x) == \E j \in 1..Len(q) : q[j] = x

NoSourceHas(sources, c) == \A j \in 1..Len(sources) : ~HasLower(sources[j].fields, c)

JsonStatements == JsonStep /\ LastPlan.sources # << >> /\ LastPlan.targets # << >>

C4JsonPart ==
    JsonStatements =>
        \A k \in 1..Len(LastPlan.targets) :
            \A j \in 1..Len(LastPlan.targets[k].fields) :
                LET c == LastPlan.targets[k].fields[j]
                IN  NoSourceHas(LastPlan.sources, c) =>
                        InSeq(SelectItems(Statements(LastJsonSql)[k]), <<"NULL AS ">> \o c)

C4XmlPart ==
    XmlSingle =>
        \A j \in 1..Len(XmlTgtFields) :
            ~HasLower(XmlSrcFields, XmlTgtFields[j]) =>
                Contains(LastXmlSql, <<"NULL AS ">> \o XmlTgtFields[j])

\* C4 (as claimed): in every generated statement, XML or JSON, each target
\* column that no source contains ignoring case is selected as NULL AS column.
C4_NullForMissingColumn == C4JsonPart /\ C4XmlPart

\* C4 (amended): in every statement generated from a JSON document, each
\* target column that no source contains ignoring case is selected as
\* NULL AS column.
C4_NullForMissingColumnJson == JsonStep => C4JsonPart

\* a JSON statement has been generated for a target with a column that no
\* source of the mapping holds
C4_Witness ==
    /\ JsonStatements
    /\ \E k \in 1..Len(LastPlan.targets) :
          \E j \in 1..Len(LastPlan.targets[k].fields) :
              /\ NoSourceHas(LastPlan.sources, LastPlan.targets[k].fields[j])
              /\ \E q \in 1..Len(LastPlan.sources) : LastPlan.sources[q].fields # << >>

\* ------------------------------------------------------------------------
\* C5
\* ------------------------------------------------------------------------

\* C5 (as claimed): on a well-formed JSON document neither count_mappings
\* nor convert_mappings_to_sql raises, whatever the types of the values.
C5_JsonNeverRaises ==
    (LooksLikeJson(file) /\ JsonLoads(file)) => (count.st # "raised" /\ conv # "raised")

\* ------------------------------------------------------------------------
\* C6
\* ------------------------------------------------------------------------

\* the fields of the first source that every other source holds ignoring case
SharedByAll(sources) ==
    SelectSeq(sources[1].fields,
              LAMBDA c : \A j \in 2..Len(sources) : HasLower(sources[j].fields, c))

\* the lines of a statement after its SELECT line
FromClause(stmt) ==
    LET at == CHOOSE p \in 1..Len(stmt) : stmt[p] # << >> /\ Head(stmt[p]) = "SELECT "
    IN  SubSeq(stmt, at + 1, Len(stmt))

EndClause(clause) ==
    [j \in 1..Len(clause) |-> IF j = Len(clause) THEN clause[j] \o <<";">> ELSE clause[j]]

UsingClause(sources) ==
    EndClause(<< <<"FROM ">> \o sources[1].name >> \o
              [j \in 1..(Len(sources) - 1) |->
                  <<"JOIN ">> \o sources[j + 1].name \o <<" USING (">>
                      \o Join(SharedByAll(sources), ", ") \o <<")">>])

\* the column an expression of the SELECT list stands for
ItemColumn(item) ==
    LET dots == {p \in 1..Len(item) : item[p] \in {".", "NULL AS "}}
    IN  IF dots = {} THEN item ELSE SubSeq(item, SetMax(dots) + 1, Len(item))

ItemIsBare(item) == \A p \in 1..Len(item) : item[p] \notin {".", "NULL AS "}

C6Case == JsonStatements /\ Len(LastPlan.sources) >= 2 /\ SharedByAll(LastPlan.sources) # << >>

C6FromAndNote(stmt) ==
    /\ FromClause(stmt) = UsingClause(LastPlan.sources)
    /\ LinesFrom(stmt, "-- ") = << >>

\* C6 (as claimed): with two or more sources sharing columns C, every
\* statement has FROM <first>, one JOIN <source> USING (C) per further source
\* in order, C in the first source's order and casing, no note, and every
\* column of C unqualified in its SELECT list.
C6_UsingJoinAllCommonSelected ==
    C6Case =>
        \A k \in 1..Len(LastPlan.targets) :
            LET stmt == Statements(LastJsonSql)[k]
                common == SharedByAll(LastPlan.sources)
            IN  /\ C6FromAndNote(stmt)
                /\ \A j \in 1..Len(common) : InSeq(SelectItems(stmt), common[j])

\* C6 (amended): with two or more sources sharing columns C, every statement
\* has FROM <first>, one JOIN <source> USING (C) per further source in order,
\* C in the first source's order and casing, and no note; every column of
\* its SELECT list that is in C ignoring case is unqualified: the columns of
\* C the target declares, in the target's casing, or all of C when the
\* target declares no columns.
C6_UsingJoinCommonUnqualified ==
    C6Case =>
        \A k \in 1..Len(LastPlan.targets) :
            LET stmt == Statements(LastJsonSql)[k]
                common == SharedByAll(LastPlan.sources)
                declared == LastPlan.targets[k].fields
                items == SelectItems(stmt)
            IN  /\ C6FromAndNote(stmt)
                /\ \A j \in 1..Len(items) :
                      HasLower(common, ItemColumn(items[j])) => ItemIsBare(items[j])
                /\ \A j \in 1..Len(declared) :
                      HasLower(common, declared[j]) => InSeq(items, declared[j])
                /\ declared = << >> =>
                      \A j \in 1..Len(common) : InSeq(items, common[j])

\* statements have been generated from sources sharing a column, for a
\* target that declares columns but not that one, and one column more
C6_Witness ==
    /\ C6Case
    /\ \E k \in 1..Len(LastPlan.targets) :
          /\ LastPlan.targets[k].fields # << >>
          /\ \E j \in 1..Len(SharedByAll(LastPlan.sources)) :
                ~HasLower(LastPlan.targets[k].fields, SharedByAll(LastPlan.sources)[j])
    /\ \E k \in 1..Len(LastPlan.targets) :
          \E j \in 1..Len(LastPlan.targets[k].fields) :
              HasLower(SharedByAll(LastPlan.sources), LastPlan.targets[k].fields[j])

\* ------------------------------------------------------------------------
\* C7
\* ------------------------------------------------------------------------

CrossClause(sources) ==
    EndClause(<< <<"FROM ">> \o sources[1].name >> \o
              [j \in 1..(Len(sources) - 1) |-> <<"CROSS JOIN ">> \o sources[j + 1].name])

C7Case == JsonStatements /\ Len(LastPlan.sources) >= 2 /\ SharedByAll(LastPlan.sources) = << >>

\* C7: with two or more sources sharing no field name, every statement has
\* FROM <first> and one CROSS JOIN <source> per further source in order, and
\* carries the note about CROSS JOIN as the comment line directly after its
\* "-- Mapping:" line.
C7_CrossJoinWithNote ==
    C7Case =>
        \A k \in 1..Len(LastPlan.targets) :
            LET stmt == Statements(LastJsonSql)[k]
            IN  /\ FromClause(stmt) = CrossClause(LastPlan.sources)
                /\ stmt[1] = <<"-- Mapping: ">> \o LastPlan.name \o <<" -> ">>
                                 \o LastPlan.targets[k].name
                /\ stmt[2] = <<"-- ", "No common columns across sources; used CROSS JOIN">>
                /\ Len(LinesFrom(stmt, "-- ")) = 1

\* statements have been generated from two sources that declare fields and
\* share none
C7_Witness ==
    /\ C7Case
    /\ \A j \in 1..Len(LastPlan.sources) : LastPlan.sources[j].fields # << >>

\* ------------------------------------------------------------------------
\* C8
\* ------------------------------------------------------------------------

\* C8: a document treated as JSON that cannot be read or parsed makes
\* count_mappings return 0 and convert_mappings_to_sql return an empty map;
\* a document treated as XML that cannot be parsed makes both raise.
C8_MalformedJsonZeroXmlRaises ==
    /\ (LooksLikeJson(file) /\ ~(file.readable /\ file.kind = "json")) =>
          /\ count.st # "none" => count = Returned(0)
          /\ pc = "done" => (conv = "returned" /\ sql_by_mapping = << >>)
          /\ pc \in {"idle", "done"}
    /\ (~LooksLikeJson(file) /\ ~(file.readable /\ file.kind = "xml")) =>
          /\ count.st # "none" => count = Raised
          /\ pc = "done" => (conv = "raised" /\ sql_by_mapping = << >>)
          /\ pc \in {"idle", "done"}

\* both operations have run on a readable file that is taken for JSON by its
\* first character and does not parse
C8_Witness ==
    /\ file.readable
    /\ file.kind = "junk"
    /\ Lower(file.ext) # DotJson
    /\ LooksLikeJson(file)
    /\ count.st # "none"
    /\ pc = "done"

\* ------------------------------------------------------------------------
\* C9
\* ------------------------------------------------------------------------

Explanations ==
    {<<"-- Requires at least one source and one target.">>,
     <<"-- No clear single source/target; manual conversion required.">>}

IsPlaceholder(text, name) ==
    /\ Len(Lines(text)) = 4
    /\ Lines(text)[1] = <<"-- Mapping: ">> \o name \o <<" (unsupported or underspecified)">>
    /\ Lines(text)[2] \in Explanations
    /\ Lines(text)[3] = <<"SELECT /* mapping ">> \o name \o <<" */ *;">>
    /\ Lines(text)[4] = << >>
    /\ ~InSeq(text, "INSERT INTO ")

\* C9: a mapping without a resolvable source or target (JSON: no source or
\* no target after normalisation; XML: not exactly one source and one target
\* transformation) yields the placeholder: the "unsupported or
\* underspecified" comment, an explanatory comment, the line
\* SELECT /* mapping <name> */ *; and no INSERT.
C9_PlaceholderWhenUnderspecified ==
    /\ (JsonStep /\ (LastPlan.sources = << >> \/ LastPlan.targets = << >>)) =>
          IsPlaceholder(LastJsonSql, LastPlan.name)
    /\ (XmlStep /\ ~XmlSingle) => IsPlaceholder(LastXmlSql, XmlName(LastElem))

\* a JSON mapping that has sources and no target has been converted
C9_Witness == JsonStep /\ LastPlan.sources # << >> /\ LastPlan.targets = << >>

\* ------------------------------------------------------------------------
\* C11
\* ------------------------------------------------------------------------

MappingComment(name, tgt) == <<"-- Mapping: ">> \o name \o <<" -> ">> \o tgt

\* C11: a JSON mapping with at least one source and k >= 1 targets stores,
\* under its name, exactly k INSERT statements, the j-th for the j-th target
\* and opened by its own "-- Mapping: <name> -> <target>" comment, with one
\* blank line, and only one, between consecutive statements.
C11_StatementPerTarget ==
    JsonStatements =>
        LET k     == Len(LastPlan.targets)
            stmts == Statements(LastJsonSql)
            lines == Lines(LastJsonSql)
            blank == {p \in 1..Len(lines) : lines[p] = << >>}
        IN  /\ Len(stmts) = k
            /\ \A j \in 1..k :
                  /\ stmts[j][1] = MappingComment(LastPlan.name, LastPlan.targets[j].name)
                  /\ Len(LinesFrom(stmts[j], "-- Mapping: ")) = 1
                  /\ Len(LinesFrom(stmts[j], "INSERT INTO ")) = 1
                  /\ StartsWith(LinesFrom(stmts[j], "INSERT INTO ")[1],
                                <<"INSERT INTO ">> \o LastPlan.targets[j].name)
            \* k - 1 separating blank lines and the empty tail after the last "\n"
            /\ Cardinality(blank) = k
            /\ \A p \in blank : p = Len(lines) \/ (p > 1 /\ p + 1 \notin blank)
            /\ lines[Len(lines) - 1] # << >>

\* the SQL of a mapping with two targets of different names has been stored
C11_Witness ==
    /\ JsonStatements
    /\ Len(LastPlan.targets) >= 2
    /\ LastPlan.targets[1].name # LastPlan.targets[2].name
    /\ Len(Statements(LastJsonSql)) >= 2

\* ------------------------------------------------------------------------
\* C12
\* ------------------------------------------------------------------------

Star == << <<"*">> >>

C12JsonCase == JsonStep /\ Len(LastPlan.sources) = 1 /\ Len(LastPlan.targets) = 1

C12JsonItems == SelectItems(Statements(LastJsonSql)[1])

\* C12 (as claimed): a mapping with one source and one target of which only
\* one side declares fields selects the declaring side's fields; it selects
\* "*" exactly when neither side declares fields; no error is raised.
C12_DeclaringSideSelected ==
    /\ C12JsonCase =>
          LET sf == LastPlan.sources[1].fields
              tf == LastPlan.targets[1].fields
          IN  /\ (sf = << >> /\ tf # << >>) => C12JsonItems = tf
              /\ (sf # << >> /\ tf = << >>) => C12JsonItems = sf
              /\ (C12JsonItems = Star) <=> (sf = << >> /\ tf = << >>)
    /\ XmlSingle =>
          /\ (XmlSrcFields = << >> /\ XmlTgtFields # << >>) =>
                Contains(LastXmlSql, SelectFromOneLine(XmlTgtFields, XmlSrcName))
          /\ (XmlSrcFields # << >> /\ XmlTgtFields = << >>) =>
                Contains(LastXmlSql, SelectFromOneLine(XmlSrcFields, XmlSrcName))
          /\ InSeq(LastXmlSql, "SELECT * FROM ") <=>
                (XmlSrcFields = << >> /\ XmlTgtFields = << >>)
    /\ (C12JsonCase \/ XmlSingle) => conv # "raised"

\* ------------------------------------------------------------------------
\* C13
\* ------------------------------------------------------------------------

\* the TRANSFORMATION children of m whose TYPE starts with prefix, ignoring case
TypeMatches(m, prefix) ==
    {j \in 1..Len(m.kids) :
        /\ m.kids[j].tag = "TRANSFORMATION"
        /\ m.kids[j].TYPE.has
        /\ Len(m.kids[j].TYPE.s) >= Len(prefix)
        /\ Lower(SubSeq(m.kids[j].TYPE.s, 1, Len(prefix))) = prefix}

SourceWord == <<"s","o","u","r","c","e">>

TargetWord == <<"t","a","r","g","e","t">>

C13Resolved ==
    /\ Cardinality(TypeMatches(LastElem, SourceWord)) = 1
    /\ Cardinality(TypeMatches(LastElem, TargetWord)) = 1

C14Case == XmlSingle /\ XmlSrcFields # << >> /\ XmlTgtFields # << >>

\* the target fields that occur in the source ignoring case, in target order
C14Columns == SelectSeq(XmlTgtFields, LAMBDA c : HasLower(XmlSrcFields, c))

C14Listed ==
    /\ Contains(LastXmlSql, InsertWithColumns(XmlTgtName, C14Columns) \o <<"\n">>)
    /\ Contains(LastXmlSql, SelectFromOneLine(C14Columns, XmlSrcName))

C15XmlName(a) ==
    IF ~a.has \/ Strip(a.s) = << >> THEN UnknownMapping ELSE Strip(a.s)

\* C15 (as claimed): every mapping name used as a result key and in the SQL
\* comments is non-blank, on the XML and on the JSON path: UNKNOWN_MAPPING
\* for a name that is absent, empty or only whitespace, and every other name
\* trimmed.
C15_NamesNonBlankTrimmed ==
    /\ \A j \in 1..Len(sql_by_mapping) :
          /\ Strip(sql_by_mapping[j].k) # << >>
          /\ Strip(sql_by_mapping[j].k) = sql_by_mapping[j].k
          /\ StartsWith(sql_by_mapping[j].v, <<"-- Mapping: ">> \o sql_by_mapping[j].k)
    /\ XmlStep => DictHas(sql_by_mapping, C15XmlName(LastElem.NAME))

\* ------------------------------------------------------------------------
\* C16
\* ------------------------------------------------------------------------

\* no two names of a list are equal ignoring case
UniqueCI(names) ==
    \A j, k \in 1..Len(names) : Lower(names[j]) = Lower(names[k]) => j = k

\* the columns an INSERT line lists between " (" and ")"
InsertColumns(line) ==
    LET open == {p \in 1..Len(line) : line[p] = " ("}
    IN  IF open = {} THEN << >>
        ELSE SplitOn(SubSeq(line, SetMin(open) + 1, Len(line) - 1), ", ")

\* no INSERT line of the text names a column twice
NoColumnTwice(text) ==
    \A g \in 1..Len(Statements(text)) :
        \A l \in 1..Len(LinesFrom(Statements(text)[g], "INSERT INTO ")) :
            UniqueCI(InsertColumns(LinesFrom(Statements(text)[g], "INSERT INTO ")[l]))

\* C16 (as claimed): the field list of every source and target used for SQL
\* generation, from a JSON or from an XML document, holds no two names equal
\* ignoring case, and no INSERT column list names a column twice.
C16_FieldsUniqueIgnoringCase ==
    /\ JsonStep =>
          /\ \A j \in 1..Len(LastPlan.sources) : UniqueCI(LastPlan.sources[j].fields)
          /\ \A j \in 1..Len(LastPlan.targets) : UniqueCI(LastPlan.targets[j].fields)
          /\ NoColumnTwice(LastJsonSql)
    /\ XmlSingle =>
          /\ UniqueCI(XmlSrcFields)
          /\ UniqueCI(XmlTgtFields)
          /\ NoColumnTwice(LastXmlSql)

\* ------------------------------------------------------------------------
\* C17
\* ------------------------------------------------------------------------

\* the source endpoint object of the first mapping of a document
C17Endpoint == Get(Get(file.json, "mappings").kv[1], "sources")

\* the document is one of the endpoint shapes: the only ones whose "sources"
\* is a single object
C17Case ==
    /\ JsonStep
    /\ UsesMappings(file.json)
    /\ Get(file.json, "mappings").kv[1].t = "dict"
    /\ C17Endpoint.t = "dict"
    /\ file.json \in ShapeDocs

Under(ep, key, names) == IF HasKey(ep, key) THEN names ELSE << >>

\* the names written under each key of the endpoint shapes, trimmed and
\* without the blank and falsy leaves, in the key order of the claim; of the
\* "schema" object only the names under its "fields"
C17ClaimedFields(ep) ==
    Under(ep, "fields", << <<"f">> >>)
    \o Under(ep, "columns", << <<"c">> >>)
    \o Under(ep, "ports", << <<"p">>, <<"q">>, <<"k">> >>)
    \o Under(ep, "children", << <<"h">> >>)
    \o Under(ep, "items", << <<"i">> >>)
    \o (IF HasKey(ep, "schema") THEN Under(Get(ep, "schema"), "fields", << <<"s">> >>)
        ELSE << >>)

C17ReadFields(ep) ==
    Under(ep, "fields", << <<"f">> >>)
    \o Under(ep, "columns", << <<"c">> >>)
    \o Under(ep, "ports", << <<"p">>, <<"q">>, <<"k">> >>)
    \o (IF HasKey(ep, "schema")
        THEN Under(Get(ep, "schema"), "name", << <<"n">> >>)
             \o Under(Get(ep, "schema"), "fields", << <<"s">> >>)
             \o Under(Get(ep, "schema"), "columns", << <<"u">> >>)
        ELSE << >>)
    \o Under(ep, "items", << <<"i">> >>)

Holders(sources, c) == {k \in 1..Len(sources) : HasLower(sources[k].fields, c)}

C18Case == JsonStatements /\ Len(LastPlan.sources) >= 2

\* the expression of a column that is not common to all sources
C18Expression(sources, c) ==
    IF Holders(sources, c) = {} THEN <<"NULL AS ">> \o c
    ELSE sources[SetMin(Holders(sources, c))].name \o <<".">> \o c

\* C18: with two or more sources, every wanted column (the target's columns
\* in their order, or else the columns selected from the sources) that is not
\* common to all sources is emitted as <source>.<column> for the first
\* source, in list order, whose fields hold it ignoring case, and as
\* NULL AS <column> exactly when no source holds it.
C18_FirstHolderQualifies ==
    C18Case =>
        \A g \in 1..Len(LastPlan.targets) :
            LET items  == SelectItems(Statements(LastJsonSql)[g])
                wanted == LastPlan.targets[g].fields
            IN  /\ wanted # << >> =>
                      /\ Len(items) = Len(wanted)
                      /\ \A j \in 1..Len(wanted) : ItemColumn(items[j]) = wanted[j]
                /\ items # Star =>
                      \A j \in 1..Len(items) :
                          ~HasLower(SharedByAll(LastPlan.sources), ItemColumn(items[j])) =>
                              items[j] = C18Expression(LastPlan.sources, ItemColumn(items[j]))

\* of three sources the second and the third hold a column the first lacks,
\* and a statement selects it from the second
C18_Witness ==
    /\ C18Case
    /\ Len(LastPlan.sources) = 3
    /\ \E g \in 1..Len(LastPlan.targets) :
          \E j \in 1..Len(SelectItems(Statements(LastJsonSql)[g])) :
              LET item == SelectItems(Statements(LastJsonSql)[g])[j]
              IN  /\ Holders(LastPlan.sources, ItemColumn(item)) = {2, 3}
                  /\ item = LastPlan.sources[2].name \o <<".">> \o ItemColumn(item)

\* ------------------------------------------------------------------------
\* C19
\* ------------------------------------------------------------------------

\* the extension is ".json" in any mix of upper and lower case
ExtensionIsJson(ext) ==
    /\ Len(ext) = 5
    /\ ext[1] = "."
    /\ ext[2] \in {"j", "J"}
    /\ ext[3] \in {"s", "S"}
    /\ ext[4] \in {"o", "O"}
    /\ ext[5] \in {"n", "N"}

\* the text can be read and its first character that is not whitespace is
\* an opening brace or bracket
OpensLikeJson(f) ==
    /\ f.readable
    /\ \E p \in 1..Len(TextHead(f)) :
          /\ TextHead(f)[p] \in {"{", "["}
          /\ \A q \in 1..(p - 1) : TextHead(f)[q] \in {" ", "\n", "\t", "\r"}

C19IsJson(f) == ExtensionIsJson(f.ext) \/ OpensLikeJson(f)

\* C19: count_mappings and convert_mappings_to_sql take the JSON branch
\* exactly when the extension is ".json" in any case or the first character
\* that is not whitespace is "{" or "[", and the XML branch otherwise, also
\* for an empty or unreadable file; both take the same branch for a file.
C19_SameJsonDecision ==
    /\ branch.count # "none" =>
          branch.count = (IF C19IsJson(file) THEN "json" ELSE "xml")
    /\ branch.convert # "none" =>
          branch.convert = (IF C19IsJson(file) THEN "json" ELSE "xml")
    /\ (branch.count # "none" /\ branch.convert # "none") =>
          branch.count = branch.convert
    /\ (branch.count = "xml" /\ ~XmlParses(file)) => count = Raised
    /\ (branch.count = "json" /\ ~JsonLoads(file)) => count = Returned(0)

\* both operations have taken the JSON branch for an XML text under the
\* extension .JSON
C19_Witness ==
    /\ branch = [count |-> "json", convert |-> "json"]
    /\ file.kind = "xml"
    /\ file.readable
    /\ file.ext # DotJson
    /\ count = Returned(0)

\* both operations have taken the XML branch for an unreadable file
C19_WitnessUnreadable ==
    /\ branch = [count |-> "xml", convert |-> "xml"]
    /\ ~file.readable
    /\ count = Raised
    /\ conv = "raised"

\* ------------------------------------------------------------------------
\* C20
\* ------------------------------------------------------------------------

\* the expressions of the SELECT line of any statement: up to the end of the
\* line on the JSON path, up to " FROM " on the XML path
SelectList(stmt) ==
    LET line == LinesFrom(stmt, "SELECT ")[1]
        from == {p \in 1..Len(line) : line[p] = " FROM "}
    IN  IF from = {} THEN SplitOn(Tail(line), ", ")
        ELSE SplitOn(SubSeq(line, 2, SetMin(from) - 1), ", ")

\* the statement selects "*"
SelectsStar(stmt) ==
    \/ LinesFrom(stmt, "SELECT * FROM ") # << >>
    \/ (LinesFrom(stmt, "SELECT ") # << >> /\ SelectList(stmt) = Star)

HasColumnList(stmt) == InSeq(LinesFrom(stmt, "INSERT INTO ")[1], " (")

\* the expression is the column bare, qualified by one name, or NULL AS it
ExpressionOf(item, c) ==
    \/ item = c
    \/ item = <<"NULL AS ">> \o c
    \/ \E p \in 2..(Len(item) - 1) :
          /\ item[p] = "."
          /\ SubSeq(item, p + 1, Len(item)) = c
          /\ \A q \in 1..(p - 1) : item[q] \notin {".", "NULL AS "}

C20Statements(text) ==
    \A g \in 1..Len(Statements(text)) :
        LET stmt == Statements(text)[g]
        IN  LinesFrom(stmt, "INSERT INTO ") # << >> =>
                /\ HasColumnList(stmt) =>
                      LET cols == InsertColumns(LinesFrom(stmt, "INSERT INTO ")[1])
                      IN  /\ LinesFrom(stmt, "SELECT ") # << >>
                          /\ Len(SelectList(stmt)) = Len(cols)
                          /\ \A j \in 1..Len(cols) : ExpressionOf(SelectList(stmt)[j], cols[j])
                /\ SelectsStar(stmt) => ~HasColumnList(stmt)

\* C20: in every generated INSERT statement with a column list, on the XML
\* and on the JSON path, the SELECT list has as many expressions as the list
\* has columns and its i-th expression is the i-th column, bare, qualified by
\* a source or as NULL AS <column>; a statement that selects "*" has no
\* column list.
C20_SelectMatchesColumnList ==
    /\ JsonStep => C20Statements(LastJsonSql)
    /\ XmlStep => C20Statements(LastXmlSql)

\* a statement whose column list comes from the union of several sources and
\* whose SELECT list holds a qualified expression has been generated
C20_Witness ==
    /\ JsonStatements
    /\ Len(LastPlan.sources) >= 2
    /\ LastPlan.targets[1].fields = << >>
    /\ HasColumnList(Statements(LastJsonSql)[1])
    /\ \E j \in 1..Len(SelectList(Statements(LastJsonSql)[1])) :
          InSeq(SelectList(Statements(LastJsonSql)[1])[j], ".")

\* ------------------------------------------------------------------------
\* C21
\* ------------------------------------------------------------------------

\* the comment lines of a statement after its "-- Mapping:" line
NoteLines(stmt) == LinesFrom(stmt, "-- ")

\* the lines of a FROM clause after the first
JoinLines(clause) == SubSeq(clause, 2, Len(clause))

C21Clause(stmt) ==
    LET clause == FromClause(stmt)
        joins  == JoinLines(clause)
        cross  == \E j \in 1..Len(joins) : Head(joins[j]) = "CROSS JOIN "
    IN  /\ Head(clause[1]) = "FROM "
        /\ Len(clause) = Len(LastPlan.sources)
        /\ \/ \A j \in 1..Len(joins) : Head(joins[j]) = "JOIN " /\ InSeq(joins[j], " USING (")
           \/ \A j \in 1..Len(joins) : Head(joins[j]) = "CROSS JOIN "
        /\ cross <=> NoteLines(stmt) = << <<"-- ", CrossJoinNote.text[1]>> >>
        /\ ~cross => NoteLines(stmt) = << >>
        /\ Len(LastPlan.sources) = 1 => (joins = << >> /\ NoteLines(stmt) = << >>)

\* C21: all statements of a JSON mapping have the same FROM clause and the
\* same note, whatever columns their targets declare; the clause joins every
\* further source with JOIN ... USING or every further source with CROSS
\* JOIN; the note is there exactly when the clause holds a CROSS JOIN; a
\* mapping with one source has neither join nor note.
C21_OneFromClausePerMapping ==
    JsonStatements =>
        LET stmts == Statements(LastJsonSql)
        IN  \A g \in 1..Len(stmts) :
                /\ C21Clause(stmts[g])
                /\ FromClause(stmts[g]) = FromClause(stmts[1])
                /\ NoteLines(stmts[g]) = NoteLines(stmts[1])

\* two targets, one declaring columns and one not, have got the same CROSS
\* JOIN clause and note from three sources
C21_Witness ==
    /\ JsonStatements
    /\ Len(LastPlan.sources) = 3
    /\ Len(LastPlan.targets) = 2
    /\ LastPlan.targets[1].fields # LastPlan.targets[2].fields
    /\ \E g \in 1..2 : LastPlan.targets[g].fields = << >>
    /\ Len(NoteLines(Statements(LastJsonSql)[2])) = 1
    /\ Head(FromClause(Statements(LastJsonSql)[2])[3]) = "CROSS JOIN "

\* ------------------------------------------------------------------------
\* C22
\* ------------------------------------------------------------------------

\* the mapping entries of the JSON document, in document order
C22Entries == IterIdmcMappings(file.json).val

\* the SQL of the document that holds the entry m alone, in the same layout
C22AloneJson(m) ==
    LET doc == IF UsesMappings(file.json) THEN MappingsDoc(<<m>>)
               ELSE JDict(<<KV("objects", JList(<<m>>))>>)
    IN  PlanSql(IdmcMappingPlans(doc).val[1])

\* the SQL of the document that holds the MAPPING element m alone
C22AloneXml(m) == XmlMappingSql(FindAllDesc(Repository(<<m>>), "MAPPING")[1])

C22UniqueJson(k) == \A j \in 1..Len(plans) : plans[j].name = plans[k].name => j = k

C22UniqueXml(k) == \A j \in 1..Len(elems) : XmlName(elems[j]) = XmlName(elems[k]) => j = k

\* C22: the SQL stored for a mapping whose name, as the converter uses it,
\* is borne by no other mapping of the document is the SQL of the document
\* holding that mapping alone, at every point after it was converted:
\* the mappings before, after and around it do not change it.
C22_MappingsIndependent ==
    /\ plans # << >> =>
          LET entries == C22Entries
          IN  \A k \in 1..i :
                  C22UniqueJson(k) =>
                      /\ DictHas(sql_by_mapping, plans[k].name)
                      /\ DictGet(sql_by_mapping, plans[k].name) = C22AloneJson(entries[k])
    /\ elems # << >> =>
          \A k \in 1..i :
              C22UniqueXml(k) =>
                  /\ DictHas(sql_by_mapping, XmlName(elems[k]))
                  /\ DictGet(sql_by_mapping, XmlName(elems[k])) = C22AloneXml(elems[k])

\* a JSON document of several mappings has been converted: one that is not
\* the last has a name of its own, and two results differ
C22_Witness ==
    /\ pc = "done"
    /\ conv = "returned"
    /\ Len(plans) >= 2
    /\ Len(sql_by_mapping) >= 2
    /\ sql_by_mapping[1].v # sql_by_mapping[2].v
    /\ \E k \in 1..Len(plans) : C22UniqueJson(k) /\ k < Len(plans)

\* an XML document of two differently named mappings has been converted
C22_WitnessXml ==
    /\ pc = "done"
    /\ conv = "returned"
    /\ Len(elems) >= 2
    /\ \E k \in 1..(Len(elems) - 1) : C22UniqueXml(k)

====
